---- MODULE Spec2Model ----
(***************************************************************************)
(* A model of discreet-metrics: the intrusive lock-free Registry           *)
(* (src/src/lib.rs), the Counter metric (src/src/metrics/counter.rs) and   *)
(* the text encoder stub (src/src/encoders/text.rs).                       *)
(*                                                                         *)
(* Descriptors are addresses 1..NumDesc; the null pointer is 0.  Every     *)
(* atomic access of the code is one step of the model.                     *)
(***************************************************************************)
EXTENDS Integers, Sequences, FiniteSets

\* ---------------------------------------------------------------- bounds
NumDesc == 3
NumThreads == 3
MaxCalls == 2
MaxIncs == 2
NumCallers == 2
IncsPerCaller == 2
UsizeBits == 3
MaxIncBy == 2
MaxCounterEncodes == 2

\* ptr::null_mut()
Null == 0

Desc == 1..NumDesc
Ptr == Desc \cup {Null}
Threads == 1..NumThreads
Callers == 1..NumCallers

\* encode's `next = &self.head`: the reference to the registry's head; a
\* reference d \in Desc is `&desc.next` of descriptor d.
HeadRef == Null

VARIABLES
  head,        \* Registry.head
  descs,       \* the MetricDesc objects: name, help, unit, labels, metric, next
  count,       \* MyMetric.count of the metric each descriptor refers to
  pc,          \* where each registering thread is in register
  desc_ptr,    \* register's argument, per thread
  head_desc_ptr, \* register's local, per thread
  calls,       \* history: the number of register calls made on each descriptor
  returned,    \* history: the descriptors whose register call returned, in order
  encPc,       \* where the encoding context is in encode
  encNext,     \* encode's local `next`: HeadRef or a descriptor (its link)
  encDesc,     \* encode's local `desc`
  events,      \* what the Encoder of the running pass has been called with
  encSeen,     \* history: how many register calls had returned when the
               \* running pass loaded head
  encSeenLink, \* the links of which the encoding context has observed the
               \* value register stored (used by the relaxed loads only)
  total,       \* Counter.total
  incsDone,    \* the inc calls each caller has made
  incByCalls,  \* history: the number of inc_by calls made
  lastTotal,   \* the value the last total() call returned
  counterEncodes, \* history: the number of calls of Counter's Metric::encode
  textWrites   \* the write calls Counter's Metric::encode made on the TextEncoder

regVars == <<head, descs, pc, desc_ptr, head_desc_ptr, calls, returned>>
\* register's variables other than the list itself (head and the links)
regLocals == <<pc, desc_ptr, head_desc_ptr, calls, returned>>
encVars == <<encPc, encNext, encDesc, events, encSeen, encSeenLink>>
counterVars == <<total, incsDone, incByCalls, lastTotal, counterEncodes, textWrites>>
vars == <<head, descs, count, pc, desc_ptr, head_desc_ptr, calls, returned,
          encPc, encNext, encDesc, events, encSeen, encSeenLink,
          total, incsDone, incByCalls, lastTotal, counterEncodes, textWrites>>

\* ------------------------------------------------------------ descriptors
\* The metadata the descriptors are constructed with: descriptor 1 is the one
\* of tests::registration; names are not unique (identity is the address).
NameOf(d) == IF d = 1 THEN "some-metric" ELSE "http_requests_total"
HelpOf(d) == IF d = 1 THEN "Some metric" ELSE "count of HTTP requests"
UnitOf(d) == IF d % 2 = 1 THEN <<>> ELSE <<"seconds">>
LabelsOf(d) == IF d = 1 THEN <<"some-label">> ELSE <<"method", "status">>

MetricDescNew(name, help, unit, labels, metric) ==
  [name |-> name, help |-> help, unit |-> unit, labels |-> labels,
   metric |-> metric, next |-> Null]

\* the metadata write_desc reads through its `desc: &MetricDesc`
\* (faulty variant: the unit is passed as None)
MetaNoUnit(desc) ==
  [name |-> desc.name, help |-> desc.help, unit |-> <<>>, labels |-> desc.labels]
Meta(desc) ==
  [name |-> desc.name, help |-> desc.help, unit |-> desc.unit, labels |-> desc.labels]

\* usize::to_string followed by as_bytes: the decimal digits, as ASCII codes
RECURSIVE ToString(_)
ToString(n) ==
  IF n < 10 THEN <<48 + n>> ELSE ToString(n \div 10) \o <<48 + (n % 10)>>

\* ------------------------------------------------------- atomic primitives
\* AtomicPtr::load through a reference: the head, or a descriptor's link
\* (faulty variant: a link always reads as null)
LoadHeadOnly(ref) == IF ref = HeadRef THEN head ELSE Null
Load(ref) == IF ref = HeadRef THEN head ELSE descs[ref].next

\* desc.next.swap(head_desc_ptr): the links after the store
\* (faulty variants: the descriptor's own address, or null, is stored)
SwapNextStoreSelf(ds, d, h) == [ds EXCEPT ![d].next = d]
SwapNextStoreNull(ds, d, h) == [ds EXCEPT ![d].next = Null]
\* (faulty variant: the descriptor is appended behind the head loaded)
SwapNextIntoHead(ds, d, h) ==
  IF h = Null THEN [ds EXCEPT ![d].next = h] ELSE [ds EXCEPT ![h].next = d]
SwapNext(ds, d, h) == [ds EXCEPT ![d].next = h]

\* the condition of register's assert!
AssertHolds(h, d, prev) == h # d /\ prev = Null

\* head.compare_exchange(head_desc_ptr, desc_ptr).is_ok()
\* (faulty variants: a plain store, which always succeeds; an exchange that
\* fails spuriously)
CompareExchangeAlways(current, expected) == TRUE
CompareExchangeNever(current, expected) == FALSE
CompareExchangeOk(current, expected) == current = expected

\* ------------------------------------------------------------------- Init
Init ==
  /\ head = Null
  /\ descs = [d \in Desc |->
                MetricDescNew(NameOf(d), HelpOf(d), UnitOf(d), LabelsOf(d), d)]
  /\ count = [d \in Desc |-> 0]
  /\ pc = [t \in Threads |-> "idle"]
  /\ desc_ptr = [t \in Threads |-> Null]
  /\ head_desc_ptr = [t \in Threads |-> Null]
  /\ calls = [d \in Desc |-> 0]
  /\ returned = <<>>
  /\ encPc = "idle"
  /\ encNext = HeadRef
  /\ encDesc = Null
  /\ events = <<>>
  /\ encSeen = 0
  /\ encSeenLink = {}
  /\ total = 0
  /\ incsDone = [c \in Callers |-> 0]
  /\ incByCalls = 0
  /\ lastTotal = 0
  /\ counterEncodes = 0
  /\ textWrites = <<>>

\* --------------------------------------------------------------- register
\* A thread calls register(d); limit bounds the calls made on one descriptor
RegisterCall(t, d, limit) ==
  /\ pc[t] = "idle"
  /\ calls[d] < limit
  /\ pc' = [pc EXCEPT ![t] = "load"]
  /\ desc_ptr' = [desc_ptr EXCEPT ![t] = d]
  /\ calls' = [calls EXCEPT ![d] = @ + 1]
  /\ UNCHANGED <<head, descs, head_desc_ptr, returned>>

\* let head_desc_ptr = self.head.load(Relaxed)
RegisterLoadHead(t) ==
  /\ pc[t] = "load"
  /\ head_desc_ptr' = [head_desc_ptr EXCEPT ![t] = head]
  /\ pc' = [pc EXCEPT ![t] = "swap"]
  /\ UNCHANGED <<head, descs, desc_ptr, calls, returned>>

\* let prev_desc_ptr = desc.next.swap(head_desc_ptr, Relaxed); assert!(...)
RegisterSwapNext(t) ==
  /\ pc[t] = "swap"
  /\ LET d == desc_ptr[t]
         h == head_desc_ptr[t]
         prev_desc_ptr == descs[d].next
     IN /\ descs' = SwapNext(descs, d, h)
        /\ pc' = [pc EXCEPT ![t] =
                    IF AssertHolds(h, d, prev_desc_ptr) THEN "cas" ELSE "panicked"]
  /\ UNCHANGED <<head, desc_ptr, head_desc_ptr, calls, returned>>

\* if self.head.compare_exchange(head_desc_ptr, desc_ptr, ..).is_ok() { break }
RegisterCasHead(t) ==
  /\ pc[t] = "cas"
  /\ IF CompareExchangeOk(head, head_desc_ptr[t])
       THEN /\ head' = desc_ptr[t]
            /\ pc' = [pc EXCEPT ![t] = "idle"]
            /\ returned' = Append(returned, desc_ptr[t])
            /\ desc_ptr' = [desc_ptr EXCEPT ![t] = Null]
            /\ head_desc_ptr' = [head_desc_ptr EXCEPT ![t] = Null]
       ELSE /\ pc' = [pc EXCEPT ![t] = "load"]
            /\ UNCHANGED <<head, returned, desc_ptr, head_desc_ptr>>
  /\ UNCHANGED <<descs, calls>>

\* ----------------------------------------------------------------- encode
\* The events one pass can record before the model stops it: a walk over
\* NumDesc descriptors and one descriptor more (a walk that never ends).
MaxEvents == 2 * NumDesc + 2

\* a caller makes a fresh encoder and calls encode: let mut next = &self.head
EncodeCall ==
  /\ encPc = "idle"
  /\ encPc' = "load"
  /\ encNext' = HeadRef
  /\ events' = <<>>
  /\ UNCHANGED <<encDesc, encSeen, encSeenLink, head, descs>>

\* while let Some(nonnull_desc_ptr) = NonNull::new(next.load(Relaxed))
\* (faulty variant: next.swap(null) for next.load, which empties what it reads)
EncodeLoadTake ==
  /\ encPc = "load"
  /\ LET p == Load(encNext)
     IN IF p = Null
          THEN /\ encPc' = "done"
               /\ encDesc' = Null
          ELSE /\ encPc' = "write_desc"
               /\ encDesc' = p
  /\ IF encNext = HeadRef
       THEN head' = Null /\ descs' = descs
       ELSE head' = head /\ descs' = [descs EXCEPT ![encNext].next = Null]
  /\ encSeen' = IF encNext = HeadRef THEN Len(returned) ELSE encSeen
  /\ UNCHANGED <<encNext, events, encSeenLink>>

EncodeLoad ==
  /\ encPc = "load"
  /\ LET p == Load(encNext)
     IN IF p = Null
          THEN /\ encPc' = "done"
               /\ encDesc' = Null
          ELSE /\ encPc' = "write_desc"
               /\ encDesc' = p
  /\ encSeen' = IF encNext = HeadRef THEN Len(returned) ELSE encSeen
  /\ UNCHANGED <<encNext, events, encSeenLink, head, descs>>

\* next.load(Ordering::Relaxed) when nothing orders the loading context after
\* the contexts that store: the values the load may return.  Register stores
\* a descriptor's link (swap, Relaxed) and then publishes the descriptor on
\* head (compare_exchange, Relaxed); neither is a release and the load is no
\* acquire, so a context that has seen the descriptor at head may still read
\* the link's initial null, until it has once observed a stored value of
\* that link.  (Head itself is read at its latest value here.)
RelaxedLoad(ref) ==
  IF ref = HeadRef
    THEN {head}
    ELSE {descs[ref].next} \cup (IF ref \in encSeenLink THEN {} ELSE {Null})

\* the load of encode's loop, with Relaxed ordering taken at its word
EncodeLoadRelaxed ==
  /\ encPc = "load"
  /\ \E p \in RelaxedLoad(encNext) :
       /\ IF p = Null
            THEN /\ encPc' = "done"
                 /\ encDesc' = Null
            ELSE /\ encPc' = "write_desc"
                 /\ encDesc' = p
       /\ encSeenLink' = IF encNext # HeadRef /\ p # Null
                           THEN encSeenLink \cup {encNext}
                           ELSE encSeenLink
  /\ encSeen' = IF encNext = HeadRef THEN Len(returned) ELSE encSeen
  /\ UNCHANGED <<encNext, events, head, descs>>

\* enc.write_desc(desc)
EncodeWriteDesc ==
  /\ encPc = "write_desc"
  /\ Len(events) < MaxEvents
  /\ events' = Append(events, [op |-> "write_desc", desc |-> encDesc,
                               meta |-> Meta(descs[encDesc])])
  /\ encPc' = "metric"
  /\ UNCHANGED <<encNext, encDesc, encSeen, encSeenLink, head, descs>>

\* MyMetric::encode: enc.write(count.load(Relaxed).to_string().as_bytes())
\* (faulty variant: nothing is written)
MyMetricEncodeNoWrite(evs, c) == evs
MyMetricEncode(evs, c) == Append(evs, [op |-> "write", bytes |-> ToString(c)])

\* desc.metric.encode(enc); next = &desc.next
EncodeMetric ==
  /\ encPc = "metric"
  /\ events' = MyMetricEncode(events, count[descs[encDesc].metric])
  /\ encNext' = encDesc
  /\ encPc' = "load"
  /\ UNCHANGED <<encDesc, encSeen, encSeenLink, head, descs>>

\* encode returns
EncodeReturn ==
  /\ encPc = "done"
  /\ encPc' = "idle"
  /\ encNext' = HeadRef
  /\ encSeen' = 0
  /\ UNCHANGED <<encDesc, events, encSeenLink, head, descs>>

\* The inc calls made on the metrics so far
RECURSIVE IncCalls(_)
IncCalls(d) == IF d = 0 THEN 0 ELSE count[d] + IncCalls(d - 1)

\* MyMetric::inc: count.fetch_add(1, Relaxed)
MetricInc(d) ==
  /\ IncCalls(NumDesc) < MaxIncs
  /\ count' = [count EXCEPT ![d] = @ + 1]

\* ---------------------------------------------------------------- Counter
RECURSIVE Pow2(_)
Pow2(n) == IF n = 0 THEN 1 ELSE 2 * Pow2(n - 1)

\* usize holds the values 0 .. UsizeModulus - 1
UsizeModulus == Pow2(UsizeBits)

\* AtomicUsize::fetch_add: the value stored (the addition wraps)
\* (faulty variant: a store of the operand)
FetchAddStore(cur, n) == n
FetchAdd(cur, n) == (cur + n) % UsizeModulus

\* Counter::inc
CounterInc(c) ==
  /\ incsDone[c] < IncsPerCaller
  /\ total' = FetchAdd(total, 1)
  /\ incsDone' = [incsDone EXCEPT ![c] = @ + 1]
  /\ UNCHANGED <<incByCalls, lastTotal, counterEncodes, textWrites>>

\* Counter::inc_by
CounterIncBy(n) ==
  /\ incByCalls < MaxIncBy
  /\ total' = FetchAdd(total, n)
  /\ incByCalls' = incByCalls + 1
  /\ UNCHANGED <<incsDone, lastTotal, counterEncodes, textWrites>>

\* Counter::total
CounterTotal ==
  /\ lastTotal' = total
  /\ UNCHANGED <<total, incsDone, incByCalls, counterEncodes, textWrites>>

\* impl Metric<TextEncoder> for Counter: encode returns the encoder it was
\* given; the body is a TODO and calls nothing on it
CounterMetricEncode(writes, t) == writes

CounterEncode ==
  /\ counterEncodes < MaxCounterEncodes
  /\ counterEncodes' = counterEncodes + 1
  /\ textWrites' = CounterMetricEncode(textWrites, total)
  /\ UNCHANGED <<total, incsDone, incByCalls, lastTotal>>

\* --------------------------------------------------------- specifications
\* Several contexts register, each descriptor passed to register once, while
\* one context encodes, all concurrently.  The metrics keep the value they
\* were constructed with: an increment touches neither head nor a link.
Next ==
  \/ \E t \in Threads, d \in Desc :
       RegisterCall(t, d, 1) /\ UNCHANGED <<count, encVars, counterVars>>
  \/ \E t \in Threads : RegisterLoadHead(t) /\ UNCHANGED <<count, encVars, counterVars>>
  \/ \E t \in Threads : RegisterSwapNext(t) /\ UNCHANGED <<count, encVars, counterVars>>
  \/ \E t \in Threads : RegisterCasHead(t) /\ UNCHANGED <<count, encVars, counterVars>>
  \/ EncodeCall /\ UNCHANGED <<count, regLocals, counterVars>>
  \/ EncodeLoad /\ UNCHANGED <<count, regLocals, counterVars>>
  \/ EncodeWriteDesc /\ UNCHANGED <<count, regLocals, counterVars>>
  \/ EncodeMetric /\ UNCHANGED <<count, regLocals, counterVars>>
  \/ EncodeReturn /\ UNCHANGED <<count, regLocals, counterVars>>

Spec == Init /\ [][Next]_vars

\* The same, with the encoding context scheduled: a context inside encode is
\* not suspended for ever.  The registering contexts may stall at any point.
RegisterStepOf(t) ==
  /\ (RegisterLoadHead(t) \/ RegisterSwapNext(t) \/ RegisterCasHead(t))
  /\ UNCHANGED <<count, encVars, counterVars>>

RegisterStep == \E t \in Threads : RegisterStepOf(t)

EncodeStep ==
  /\ (EncodeLoad \/ EncodeWriteDesc \/ EncodeMetric \/ EncodeReturn)
  /\ UNCHANGED <<count, regLocals, counterVars>>

SpecFair == Init /\ [][Next]_vars /\ WF_vars(EncodeStep)

\* The registering contexts alone, scheduled together: any one of them may
\* stall for as long as another one steps, but they do not all stop inside
\* register.
NextRegister ==
  \/ \E t \in Threads, d \in Desc :
       RegisterCall(t, d, 1) /\ UNCHANGED <<count, encVars, counterVars>>
  \/ \E t \in Threads : RegisterLoadHead(t) /\ UNCHANGED <<count, encVars, counterVars>>
  \/ \E t \in Threads : RegisterSwapNext(t) /\ UNCHANGED <<count, encVars, counterVars>>
  \/ \E t \in Threads : RegisterCasHead(t) /\ UNCHANGED <<count, encVars, counterVars>>

SpecRegisterFair == Init /\ [][NextRegister]_vars /\ WF_vars(RegisterStep)

\* As Spec, with the loads of the encoding context relaxed: it runs in
\* another context than the registrations and nothing but the Relaxed
\* atomics relates them.
NextRelaxed ==
  \/ \E t \in Threads, d \in Desc :
       RegisterCall(t, d, 1) /\ UNCHANGED <<count, encVars, counterVars>>
  \/ \E t \in Threads : RegisterLoadHead(t) /\ UNCHANGED <<count, encVars, counterVars>>
  \/ \E t \in Threads : RegisterSwapNext(t) /\ UNCHANGED <<count, encVars, counterVars>>
  \/ \E t \in Threads : RegisterCasHead(t) /\ UNCHANGED <<count, encVars, counterVars>>
  \/ EncodeCall /\ UNCHANGED <<count, regLocals, counterVars>>
  \/ EncodeLoadRelaxed /\ UNCHANGED <<count, regLocals, counterVars>>
  \/ EncodeWriteDesc /\ UNCHANGED <<count, regLocals, counterVars>>
  \/ EncodeMetric /\ UNCHANGED <<count, regLocals, counterVars>>
  \/ EncodeReturn /\ UNCHANGED <<count, regLocals, counterVars>>

SpecRelaxed == Init /\ [][NextRelaxed]_vars

\* One context does everything, one call after the other (thread 1), and may
\* pass a descriptor to register again.  A call that panicked ends the
\* registrations; the registry can still be encoded.
SeqIdle == pc[1] \in {"idle", "panicked"}

NextSeq ==
  \/ \E d \in Desc :
       /\ encPc = "idle"
       /\ RegisterCall(1, d, MaxCalls)
       /\ UNCHANGED <<count, encVars, counterVars>>
  \/ RegisterLoadHead(1) /\ UNCHANGED <<count, encVars, counterVars>>
  \/ RegisterSwapNext(1) /\ UNCHANGED <<count, encVars, counterVars>>
  \/ RegisterCasHead(1) /\ UNCHANGED <<count, encVars, counterVars>>
  \/ SeqIdle /\ EncodeCall /\ UNCHANGED <<count, regLocals, counterVars>>
  \/ EncodeLoad /\ UNCHANGED <<count, regLocals, counterVars>>
  \/ EncodeWriteDesc /\ UNCHANGED <<count, regLocals, counterVars>>
  \/ EncodeMetric /\ UNCHANGED <<count, regLocals, counterVars>>
  \/ EncodeReturn /\ UNCHANGED <<count, regLocals, counterVars>>
  \/ \E d \in Desc :
       /\ SeqIdle /\ encPc = "idle"
       /\ MetricInc(d)
       /\ UNCHANGED <<regVars, encVars, counterVars>>

SpecSeq == Init /\ [][NextSeq]_vars

\* The Counter alone: NumCallers contexts increment it, concurrently with
\* inc_by, total and encode calls.
NextCounter ==
  \/ \E c \in Callers : CounterInc(c) /\ UNCHANGED <<count, regVars, encVars>>
  \/ \E n \in 0..(UsizeModulus - 1) :
       CounterIncBy(n) /\ UNCHANGED <<count, regVars, encVars>>
  \/ CounterTotal /\ UNCHANGED <<count, regVars, encVars>>
  \/ CounterEncode /\ UNCHANGED <<count, regVars, encVars>>

SpecCounter == Init /\ [][NextCounter]_vars

\* ------------------------------------------------- what the claims speak of
\* The chain from p along the links, at most fuel descriptors of it
RECURSIVE Walk(_, _)
Walk(p, fuel) ==
  IF p = Null \/ fuel = 0 THEN <<>> ELSE <<p>> \o Walk(descs[p].next, fuel - 1)

\* The chain from head; NumDesc + 1 entries mean the chain never ends
Chain == Walk(head, NumDesc + 1)
Reach == {Chain[i] : i \in 1..Len(Chain)}

Occurrences(seq, x) == Cardinality({i \in 1..Len(seq) : seq[i] = x})
Reverse(seq) == [i \in 1..Len(seq) |-> seq[Len(seq) + 1 - i]]

\* The descriptors write_desc was called with in the running pass, in order
WriteDescs == SelectSeq(events, LAMBDA e : e.op = "write_desc")
Visited == [i \in 1..Len(WriteDescs) |-> WriteDescs[i].desc]

\* The descriptors passed to register so far
Registered == {d \in Desc : calls[d] > 0}
OncePerDesc == \A d \in Desc : calls[d] <= 1

\* ----------------------------------------------------------------- claims
\* C1: after N register calls on N distinct fresh descriptors, made one
\* after the other, a subsequent encode calls write_desc exactly N times,
\* once for each registered descriptor and for no other; on the empty
\* registry it calls neither write_desc nor a metric's encode.
C1_EncodeVisitsEachOnce ==
  (encPc = "done" /\ OncePerDesc) =>
    /\ Len(Visited) = Cardinality(Registered)
    /\ \A d \in Desc : Occurrences(Visited, d) = (IF d \in Registered THEN 1 ELSE 0)
    /\ (Registered = {} => events = <<>>)

C1_Witness ==
  /\ encPc = "done"
  /\ OncePerDesc
  /\ Registered = Desc
  /\ Len(Visited) = NumDesc

\* C2: passing a descriptor to register a second time always ends in the
\* panic, wherever the descriptor is in the list: the second call never
\* returns, so no descriptor's register call returns twice.  (Where a second
\* call does return, the descriptor is also twice in the chain from head.)
C2_ReRegisterAlwaysPanics ==
  \A d \in Desc : Occurrences(returned, d) <= 1

\* C3: concurrent register calls, each on its own fresh descriptor, never
\* hit the assertion.
C3_NoPanicOnFreshDescriptors ==
  \A t \in Threads : pc[t] # "panicked"

\* C4: a descriptor whose register call has returned is reachable from head,
\* in the state of the return and in every later state.
C4_NoLostRegistration ==
  \A i \in 1..Len(returned) : returned[i] \in Reach

C4_Witness ==
  /\ Len(returned) = NumDesc
  /\ Reach = Desc

\* C5: with each descriptor passed to register at most once, in every state
\* (also in the middle of a call, and after a panic) the chain from head is
\* finite, ends in null and holds each descriptor at most once.
C5_ChainAcyclic ==
  /\ Len(Chain) <= NumDesc
  /\ \A d \in Desc : Occurrences(Chain, d) <= 1

C5_Witness ==
  /\ Len(Chain) = NumDesc - 1
  /\ \E t \in Threads : pc[t] = "cas" /\ head # head_desc_ptr[t]

\* C6: a register call that ends in the panic leaves head and the link of
\* every descriptor reachable from head as they were before the call.  (With
\* one context, the steps of the call before the one that panics write
\* nothing, so the state before that step is the state before the call.)
C6_PanicLeavesListIntact ==
  [][(pc[1] # "panicked" /\ pc'[1] = "panicked") =>
       /\ head' = head
       /\ \A d \in Reach : descs'[d].next = descs[d].next]_vars

\* C7: after registering distinct descriptors one after the other, the chain
\* from head, and so the order encode visits them in, is the reverse of the
\* order of registration.
C7_ReverseRegistrationOrder ==
  OncePerDesc =>
    /\ Chain = Reverse(returned)
    /\ (encPc = "done" => Visited = Reverse(returned))

C7_Witness ==
  /\ OncePerDesc
  /\ encPc = "done"
  /\ returned = <<2, 3, 1>>
  /\ Visited = <<1, 3, 2>>

\* C8: in one encode pass the encoder sees, per visited descriptor, one
\* write_desc for it and then its metric's write, before the next
\* write_desc; for a registry of one descriptor whose metric was incremented
\* once, the events are one write_desc with the metadata and one write of "1".
C8_EventOrder ==
  /\ \A i \in 1..Len(events) :
       events[i].op = (IF i % 2 = 1 THEN "write_desc" ELSE "write")
  /\ encPc \in {"load", "done"} =>
       /\ Len(events) % 2 = 0
       /\ \A i \in 1..Len(events) :
            i % 2 = 1 =>
              /\ events[i].meta = Meta(descs[events[i].desc])
              /\ events[i + 1].bytes = ToString(count[descs[events[i].desc].metric])
  /\ \A d \in Desc :
       (encPc = "done" /\ Chain = <<d>> /\ count[d] = 1) =>
         events = <<[op |-> "write_desc", desc |-> d, meta |-> Meta(descs[d])],
                    [op |-> "write", bytes |-> <<49>>]>>

C8_Witness ==
  /\ encPc = "done"
  /\ Chain = <<1>>
  /\ count[1] = 1
  /\ events = <<[op |-> "write_desc", desc |-> 1,
                 meta |-> [name |-> "some-metric", help |-> "Some metric",
                           unit |-> <<>>, labels |-> <<"some-label">>]],
                [op |-> "write", bytes |-> <<49>>]>>

\* C9: when NumCallers callers have each called inc IncsPerCaller times on a
\* Counter that started at 0, and nothing else was done to it, total() is
\* NumCallers * IncsPerCaller.
C9_ConcurrentIncsSum ==
  ((\A c \in Callers : incsDone[c] = IncsPerCaller) /\ incByCalls = 0) =>
    total = NumCallers * IncsPerCaller

C9_Witness ==
  /\ \A c \in Callers : incsDone[c] = IncsPerCaller
  /\ incByCalls = 0
  /\ lastTotal = NumCallers * IncsPerCaller

\* C10: every call of the Counter's Metric::encode makes exactly one write
\* call on the encoder.
C10_CounterEncodeWritesOnce ==
  Len(textWrites) = counterEncodes

\* C11: register is lock-free.  A compare-and-swap on head fails only when
\* another caller's compare-and-swap has succeeded since the failing caller
\* loaded head (head is then a descriptor published after the one loaded);
\* a caller inside register can always take its next step, whatever the
\* others do; and whenever a caller is at the top of the loop with its
\* descriptor's link unset, as it is when its call begins, a register call
\* returns within finitely many steps.
IndexOf(seq, x) ==
  IF \E i \in 1..Len(seq) : seq[i] = x
    THEN CHOOSE i \in 1..Len(seq) : seq[i] = x
    ELSE 0

InProgress(t) == pc[t] \in {"load", "swap", "cas"}

C11_LockFreeProgress ==
  /\ [][\A t \in Threads :
          (pc[t] = "cas" /\ pc'[t] = "load") =>
            IndexOf(returned, head) > IndexOf(returned, head_desc_ptr[t])]_vars
  /\ [](\A t \in Threads : InProgress(t) => ENABLED RegisterStepOf(t))
  /\ \A n \in 0..NumDesc :
       (Len(returned) = n /\
        \E t \in Threads : pc[t] = "load" /\ descs[desc_ptr[t]].next = Null)
         ~> (Len(returned) > n)

C11_Witness ==
  \E t \in Threads :
    /\ pc[t] = "load"
    /\ descs[desc_ptr[t]].next # Null
    /\ head # descs[desc_ptr[t]].next

\* C12: every write_desc event carries the name, help, unit and labels the
\* descriptor was constructed with, and register and encode leave these four
\* fields of every descriptor as constructed.
ConstructedMeta(d) ==
  [name |-> NameOf(d), help |-> HelpOf(d), unit |-> UnitOf(d), labels |-> LabelsOf(d)]

C12_MetadataPassedUnchanged ==
  /\ \A d \in Desc :
       /\ descs[d].name = NameOf(d)
       /\ descs[d].help = HelpOf(d)
       /\ descs[d].unit = UnitOf(d)
       /\ descs[d].labels = LabelsOf(d)
  /\ \A i \in 1..Len(WriteDescs) :
       WriteDescs[i].meta = ConstructedMeta(WriteDescs[i].desc)

C12_Witness ==
  /\ encPc = "done"
  /\ \E i \in 1..Len(WriteDescs) :
       /\ WriteDescs[i].desc = 2
       /\ WriteDescs[i].meta =
            [name |-> "http_requests_total", help |-> "count of HTTP requests",
             unit |-> <<"seconds">>, labels |-> <<"method", "status">>]
  /\ \E t \in Threads : pc[t] = "panicked"

Ahead == Len(Walk(Load(encNext), NumDesc + 1))

C14_EncodeTerminates ==
  /\ [](Len(Visited) <= Len(returned))
  /\ [][(encPc = "load" /\ encPc' = "load" /\ encNext # HeadRef) =>
          Ahead' <= Ahead]_vars
  /\ (encPc = "load") ~> (encPc = "done")

C14_Witness ==
  /\ encPc = "done"
  /\ Len(Visited) = NumDesc - 1
  /\ Len(returned) = NumDesc

\* C15: a step of register(d) writes no descriptor other than d and, of d,
\* only the link; and the link of a descriptor that is reachable from head
\* is not written again.
C15_RegisterWritesOwnLinkAndHead ==
  [][/\ \A t \in Threads :
          pc'[t] # pc[t] =>
            LET d == IF pc[t] = "idle" THEN desc_ptr'[t] ELSE desc_ptr[t]
            IN /\ \A x \in Desc \ {d} : descs'[x] = descs[x]
               /\ descs'[d] = [descs[d] EXCEPT !.next = descs'[d].next]
               /\ count' = count
     /\ \A x \in Reach : descs'[x].next = descs[x].next]_vars

C15_Witness ==
  \E t \in Threads :
    /\ pc[t] = "cas"
    /\ descs[desc_ptr[t]].next # Null
    /\ descs[desc_ptr[t]].next = head
    /\ Len(Chain) = NumDesc - 1

\* C16: encode only loads: no step of encode changes head or any field of a
\* descriptor.
C16_EncodeReadOnly ==
  [][encPc' # encPc => (head' = head /\ descs' = descs)]_vars

C16_Witness ==
  /\ encPc = "done"
  /\ Len(Visited) = NumDesc
  /\ Len(Chain) = NumDesc

\* C17: the value total() returns never decreases from one call of total()
\* to a later one, whatever inc and inc_by(n) calls are made in between.
C17_TotalNeverDecreases ==
  [][lastTotal' >= lastTotal]_vars

\* C18: with every atomic access relaxed, an encode in another context that
\* observes a descriptor at head reads each link it follows as the value
\* register stored before publishing the descriptor, and so visits every
\* descriptor registered before the one it observed at head.
C18_RelaxedOrderingSuffices ==
  /\ \A i \in 1..Len(Visited) :
       /\ i < Len(Visited) => Visited[i + 1] = descs[Visited[i]].next
       /\ (i = Len(Visited) /\ encPc = "done") => descs[Visited[i]].next = Null
  /\ (encPc = "done" /\ Visited # <<>>) =>
       \A i \in 1..IndexOf(returned, Visited[1]) : Occurrences(Visited, returned[i]) = 1

====
